---- MODULE Spec2Model ----
(***************************************************************************)
(* A model of the ray tracer: the window/event loop of main.rs and         *)
(* windowing.rs driving renderer::render (specification Spec), the         *)
(* intersection search applied to drawn inputs (SpecIntersect), and the    *)
(* recursive trace_ray run as an explicit call stack (SpecTrace).          *)
(*                                                                         *)
(* Numbers.  An f32 is modelled exactly on the values the model's inputs   *)
(* produce: geometry lives on the integer lattice, every vector the tracer *)
(* forms there is parallel to a coordinate axis, and the discriminants are *)
(* perfect squares, so every f32 operation of Sphere::intersect is exact.  *)
(* A float is a record [n, z]: n its integer value, z the sign bit of a    *)
(* zero (z = TRUE only for -0.0), because f32::total_cmp and f32::min      *)
(* tell -0.0 from +0.0.  Colours are integers in units of 1/Unit.          *)
(***************************************************************************)
EXTENDS Integers, Sequences, FiniteSets, TLC

VARIABLES
    \* ---- main.rs / windowing.rs / render ----
    size,             \* WindowingState.size (LogicalSize<u32>)
    buffer,           \* the frame of WindowingState.context (pixels), a byte sequence
    cursor_position,  \* main's cursor_position
    scene,            \* the Scene of the current frame (simple_scene), <<>> before the first
    pc,               \* where the event loop / render is
    screen_size,      \* render's screen_size argument
    ry, rx,           \* render's loop counters y, x
    rays,             \* render's rays vector
    ri,               \* render's enumerate index of the second loop
    wlog,             \* the buffer writes of the current render call, in order
    resized,          \* whether resize has run since the last presented frame
    \* ---- intersect_ray / trace_ray ----
    world,            \* the Scene handed to intersect_ray / trace_ray
    min_tie,          \* which operand f32::min returns when both compare equal
    arg,              \* the arguments of the outermost call
    stack,            \* the call stack of trace_ray, innermost frame last
    result,           \* the value returned by the outermost call
    lastQuery,        \* the latest intersect_ray call: arguments and result
    lastLight,        \* the latest evaluation of the light closure of trace_ray
    calls             \* the number of trace_ray invocations so far

mainVars ==
    <<size, buffer, cursor_position, scene, pc, screen_size, ry, rx, rays, ri, wlog, resized>>

traceVars == <<world, min_tie, arg, stack, result, lastQuery, lastLight, calls>>

vars == <<mainVars, traceVars>>

\* ------------------------------------------------------------------------
\* Bounds of the model
\* ------------------------------------------------------------------------

\* window sizes are drawn from 1..MaxDim in each dimension
MaxDim == 2

\* a Scene of SpecIntersect holds 1..MaxProbeObjects objects
MaxProbeObjects == 3

\* a Scene of SpecTrace holds 1..MaxObjects objects
MaxObjects == 2

\* and 0..MaxLights lights
MaxLights == 1

\* ------------------------------------------------------------------------
\* f32 on the model's values
\* ------------------------------------------------------------------------

Fl(k) == [n |-> k, z |-> FALSE]

\* the sign bit
SignBit(x) == x.n < 0 \/ (x.n = 0 /\ x.z)

FNeg(x) == IF x.n = 0 THEN [n |-> 0, z |-> ~x.z] ELSE Fl(-x.n)

\* x + y, round to nearest: an exact zero sum is -0.0 only if both are -0.0
FAdd(x, y) ==
    IF x.n + y.n # 0 THEN Fl(x.n + y.n)
    ELSE [n |-> 0, z |-> (x.n = 0 /\ y.n = 0 /\ x.z /\ y.z)]

FSub(x, y) == FAdd(x, FNeg(y))

\* x * y: the sign of a zero product is the xor of the signs
FMul(x, y) ==
    IF x.n * y.n # 0 THEN Fl(x.n * y.n)
    ELSE [n |-> 0, z |-> (SignBit(x) # SignBit(y))]

\* x / 2.0 (exact: the model's numerators are even)
FHalf(x) == IF x.n = 0 THEN x ELSE Fl(x.n \div 2)

\* x.powf(2.0): pow(+-0, 2) = +0
FPowf2(x) == Fl(x.n * x.n)

ISqrt(k) == CHOOSE s \in 0..k : s * s <= k /\ (s + 1) * (s + 1) > k

\* x.sqrt() for x >= 0: sqrt(-0.0) = -0.0
FSqrt(x) == IF x.n = 0 THEN x ELSE Fl(ISqrt(x.n))

\* f32::min: when the operands compare equal (+0.0 and -0.0) either may be returned
FMin(x, y, tie) ==
    IF x.n < y.n THEN x
    ELSE IF y.n < x.n THEN y
    ELSE IF tie = "second" THEN y ELSE x

\* f32::total_cmp(a, b) = Less: the IEEE total order puts -0.0 before +0.0
TotalLess(x, y) == x.n < y.n \/ (x.n = y.n /\ x.z /\ ~y.z)

\* ---- Vec3 ----

V3(a, b, c) == <<Fl(a), Fl(b), Fl(c)>>

VAdd(u, v) == <<FAdd(u[1], v[1]), FAdd(u[2], v[2]), FAdd(u[3], v[3])>>

VSub(u, v) == <<FSub(u[1], v[1]), FSub(u[2], v[2]), FSub(u[3], v[3])>>

\* componentwise product
VMul(u, v) == <<FMul(u[1], v[1]), FMul(u[2], v[2]), FMul(u[3], v[3])>>

\* scalar * vector
VScale(s, v) == <<FMul(s, v[1]), FMul(s, v[2]), FMul(s, v[3])>>

VPowf2(v) == <<FPowf2(v[1]), FPowf2(v[2]), FPowf2(v[3])>>

\* x + y + z, left to right
VSum(v) == FAdd(FAdd(v[1], v[2]), v[3])

Dot(u, v) == VSum(VMul(u, v))

\* Vec3::length
Length(v) == ISqrt(v[1].n * v[1].n + v[2].n * v[2].n + v[3].n * v[3].n)

IsZeroVec(v) == v[1].n = 0 /\ v[2].n = 0 /\ v[3].n = 0

Sgn(k) == IF k > 0 THEN 1 ELSE IF k < 0 THEN -1 ELSE 0

\* Vec3::normalize of a non-zero vector parallel to an axis: each component times
\* 1/length.  (The zero vector normalizes to NaN; callers test IsZeroVec first.)
Normalize(v) ==
    <<IF v[1].n = 0 THEN v[1] ELSE Fl(Sgn(v[1].n)),
      IF v[2].n = 0 THEN v[2] ELSE Fl(Sgn(v[2].n)),
      IF v[3].n = 0 THEN v[3] ELSE Fl(Sgn(v[3].n))>>

\* Vec3::angle_between in units of PI/2, for non-zero axis-parallel vectors:
\* acos(1) = 0, acos(0) = PI/2, acos(-1) = PI
AngleQuarters(u, v) ==
    IF Dot(u, v).n > 0 THEN 0 ELSE IF Dot(u, v).n = 0 THEN 1 ELSE 2

\* ------------------------------------------------------------------------
\* Geometry: Ray, Sphere
\* ------------------------------------------------------------------------

NoneV == [some |-> FALSE]

SomeT(t) == [some |-> TRUE, t |-> t]

SomeId(k) == [some |-> TRUE, id |-> k]

Ray(position, direction) == [position |-> position, direction |-> direction]

\* Ray::get_point
get_point(ray, t) == VAdd(ray.position, VScale(t, ray.direction))

\* the coefficients of the quadratic as Sphere::intersect computes them
QuadA(ray) == VSum(VPowf2(ray.direction))

QuadB(sphere, ray) ==
    VSum(VMul(VScale(Fl(2), ray.direction), VSub(ray.position, sphere.position)))

QuadC(sphere, ray) ==
    FSub(VSum(VSub(VAdd(VPowf2(ray.position), VPowf2(sphere.position)),
                   VMul(VScale(Fl(2), ray.position), sphere.position))),
         FPowf2(Fl(sphere.radius)))

\* partial_t = b^2 - 4ac
PartialT(a, b, c) == FSub(FPowf2(b), FMul(FMul(Fl(4), a), c))

\* t1 = (-b + partial_t_sqrt) / 2.0 * a : halved first, then multiplied by a
T1(a, b, partial_t_sqrt) == FMul(FHalf(FAdd(FNeg(b), partial_t_sqrt)), a)

\* t2 = (-b - partial_t_sqrt) / 2.0 * a
T2(a, b, partial_t_sqrt) == FMul(FHalf(FSub(FNeg(b), partial_t_sqrt)), a)

\* the branch on partial_t: None when negative, else t1.min(t2), negative or not
SmallerRoot(a, b, partial_t, tie) ==
    IF partial_t.n < 0 THEN NoneV
    ELSE SomeT(FMin(T1(a, b, FSqrt(partial_t)), T2(a, b, FSqrt(partial_t)), tie))

\* Sphere::intersect
SphereIntersect(sphere, ray, tie) ==
    SmallerRoot(QuadA(ray), QuadB(sphere, ray),
                PartialT(QuadA(ray), QuadB(sphere, ray), QuadC(sphere, ray)), tie)

\* Sphere::get_normal
get_normal(sphere, point) == Normalize(VSub(point, sphere.position))

\* ------------------------------------------------------------------------
\* Lights
\* ------------------------------------------------------------------------

\* 1.0 of a colour channel or of a light's scalar, in the model's fixed point
Unit == 64

\* the direction from the point towards the light
LightNormal(light, point) ==
    IF light.kind = "SpotLight" THEN Normalize(VSub(light.position, point))
    ELSE VScale(Fl(-1), light.direction)

\* the vector whose angle with the normal decides the front-face test; a zero
\* vector makes the angle NaN and the comparison false
FacesLight(v, normal) ==
    /\ ~IsZeroVec(v)
    /\ ~IsZeroVec(normal)
    /\ AngleQuarters(v, normal) < 1

\* Light::get_light_ray
get_light_ray(light, point, normal) ==
    LET towards == IF light.kind = "SpotLight" THEN VSub(light.position, point)
                   ELSE VScale(Fl(-1), light.direction)
    IN  IF FacesLight(towards, normal)
        THEN [some |-> TRUE, ray |-> Ray(point, LightNormal(light, point))]
        ELSE NoneV

\* a SpotLight shadowed also by an occluder exactly as far as the light
check_shadow_or_equal(light, point, intersected_point) ==
    IF light.kind = "SpotLight"
    THEN Length(VSub(light.position, point)) >= Length(VSub(intersected_point, point))
    ELSE TRUE

\* Light::check_shadow
check_shadow(light, point, intersected_point) ==
    IF light.kind = "SpotLight"
    THEN Length(VSub(light.position, point)) > Length(VSub(intersected_point, point))
    ELSE TRUE

\* Light::intensity, in units of 1/Unit.  Called only after get_light_ray
\* returned a ray, so the distance is positive.
intensity(light, point, normal) ==
    IF light.kind = "SpotLight"
    THEN LET len == Length(VSub(light.position, point))
             by_distance == ISqrt((light.intensity * Unit * light.intensity * Unit) \div len)
             by_angle == 1 - AngleQuarters(VSub(light.position, point), normal)
         IN  by_distance * by_angle
    ELSE light.intensity * Unit
           * (1 - AngleQuarters(VScale(Fl(-1), light.direction), normal))

\* ------------------------------------------------------------------------
\* Vec4 colours, in units of 1/Unit
\* ------------------------------------------------------------------------

ZERO == <<0, 0, 0, 0>>

C4Add(u, v) == [k \in 1..4 |-> u[k] + v[k]]

\* f32 * Vec4 with a fixed-point scalar
C4Scale(s, v) == [k \in 1..4 |-> (s * v[k]) \div Unit]

\* Vec4 * 0.5
C4Half(v) == [k \in 1..4 |-> v[k] \div 2]

\* intensity.min(vec4(1.0, 1.0, 1.0, 1.0))
ClampOne(v) == [k \in 1..4 |-> IF v[k] < Unit THEN v[k] ELSE Unit]

\* ------------------------------------------------------------------------
\* intersect_ray
\* ------------------------------------------------------------------------

\* the filter_map closure on object i with r = shape.intersect(ray): None for the
\* excluded id, a miss or a negative t
Candidate(o, i, r, exclude_id) ==
    IF exclude_id.some /\ exclude_id.id = o.id THEN NoneV
    ELSE IF r.some /\ r.t.n >= 0
         THEN [some |-> TRUE, t |-> r.t, id |-> o.id, idx |-> i]
         ELSE NoneV

\* min_by keeping the last of equal elements, as max_by does
Replaces_last_of_equal(best, next) == ~TotalLess(best.t, next.t)

\* min_by's comparison of the running minimum with the next element: the next
\* element replaces it only when the minimum compares Greater
Replaces(best, next) == TotalLess(next.t, best.t)

\* one step of Iterator::min_by over the elements filter_map yields
MinByStep(best, next) ==
    IF ~next.some THEN best
    ELSE IF ~best.some THEN next
    ELSE IF Replaces(best, next) THEN next ELSE best

\* Iterator::min_by over the candidates of objects[1..n]
RECURSIVE MinBy(_, _, _, _, _)
MinBy(objects, n, ray, exclude_id, tie) ==
    IF n = 0 THEN NoneV
    ELSE MinByStep(MinBy(objects, n - 1, ray, exclude_id, tie),
                   Candidate(objects[n], n, SphereIntersect(objects[n].shape, ray, tie),
                             exclude_id))

intersect_ray(sc, ray, exclude_id, tie) ==
    MinBy(sc.objects, Len(sc.objects), ray, exclude_id, tie)

\* ------------------------------------------------------------------------
\* main.rs: simple_scene
\* ------------------------------------------------------------------------

\* the dpi main passes to WindowingState::new
Dpi == 1

Material(r, g, b, a) == [color |-> <<r, g, b, a>>]

\* the four materials, channels in tenths
blue_material == Material(0, 4, 10, 10)

orange_material == Material(10, 7, 2, 10)

green_material == Material(4, 10, 6, 10)

white_material == Material(10, 10, 10, 10)

\* a Sphere with its position and radius in tenths of a world unit
SphereTenths(x, y, z, r) == [position |-> <<x, y, z>>, radius |-> r]

Object(id, shape, material) == [id |-> id, shape |-> shape, material |-> material]

\* get_cursor_world_position is a function of the cursor, the camera and the screen
\* size only; the light it places is kept as that application
get_cursor_world_position(cursor, screen, z_depth) ==
    [of_cursor |-> cursor, of_screen |-> screen, z_depth |-> z_depth]

simple_scene(cursor, screen) ==
    [objects |->
        << Object(0, SphereTenths(20, 20, 1000, 400), white_material),
           Object(0, SphereTenths(20, 20, 100, 10), blue_material),
           Object(1, SphereTenths(-20, 20, 100, 10), orange_material),
           Object(2, SphereTenths(60, -30, 150, 7), orange_material),
           Object(3, SphereTenths(30, -50, 150, 7), white_material),
           Object(4, SphereTenths(0, 0, 150, 7), blue_material),
           Object(5, SphereTenths(-30, -50, 150, 7), green_material),
           Object(6, SphereTenths(-60, -30, 150, 7), orange_material) >>,
     lights |->
        << [kind |-> "SpotLight",
            position |-> get_cursor_world_position(cursor, screen, 10),
            intensity |-> 1],
           [kind |-> "SpotLight", position |-> <<0, 50, 100>>, intensity |-> 1],
           [kind |-> "DirectionalLight", direction |-> <<10, 5, 50>>, intensity |-> 1] >>]

\* ------------------------------------------------------------------------
\* windowing.rs: WindowingState
\* ------------------------------------------------------------------------

\* the width and height PixelsBuilder::new is given
InitBufferDim == 100

Size(w, h) == [width |-> w, height |-> h]

Sizes == {Size(w, h) : w \in 1..MaxDim, h \in 1..MaxDim}

\* LogicalSize::new(size.width / self.dpi, size.height / self.dpi)
LogicalOf(physical) == Size(physical.width \div Dpi, physical.height \div Dpi)

\* resize_buffer left out of resize: the frame keeps its length
resize_buffer_skipped(frame, width, height) == frame

\* Pixels::resize_buffer: the frame becomes width * height * 4 bytes, keeping the
\* bytes it had and filling with 0
resize_buffer(frame, width, height) ==
    [k \in 1..(width * height * 4) |-> IF k <= Len(frame) THEN frame[k] ELSE 0]

\* the frame Pixels is built with
InitFrame == [k \in 1..(InitBufferDim * InitBufferDim * 4) |-> 0]

\* the cursor positions CursorMoved delivers
CursorPool == {<<0, 0>>, <<1, 1>>}

\* ------------------------------------------------------------------------
\* renderer.rs: render
\* ------------------------------------------------------------------------

\* `as u8` of a channel times 255: truncated, saturating at 0 and 255
AsU8(channel) ==
    LET v == channel * 255
    IN  IF v <= 0 THEN 0
        ELSE IF v \div Unit > 255 THEN 255 ELSE v \div Unit

\* a stride of 3 bytes per ray instead of 4
PixelOffset_stride3(i) == i * 3

\* the buffer index of the first byte of the i-th ray
PixelOffset(i) == i * 4

\* colours trace_ray returns to render
ColorSamples == {ZERO, <<Unit, Unit \div 2, 0, Unit>>}

\* how many of the 4 bytes at offset i fit the frame before an index is out of range
BytesInRange(frame, i) == Cardinality({k \in 0..3 : i + k < Len(frame)})

\* ------------------------------------------------------------------------
\* The event loop of main and the loops of render
\* ------------------------------------------------------------------------

renderVars == <<screen_size, ry, rx, rays, ri, wlog>>

\* the trace_ray part of the state before any call
TraceIdle ==
    /\ world = [objects |-> <<>>, lights |-> <<>>]
    /\ min_tie = "first"
    /\ arg = NoneV
    /\ stack = <<>>
    /\ result = NoneV
    /\ lastQuery = NoneV
    /\ lastLight = NoneV
    /\ calls = 0

\* WindowingState::new: Pixels is built 100 x 100, size is LogicalSize::default(),
\* then resize(surface_size) runs
Init ==
    /\ \E surface_size \in Sizes :
          /\ size = LogicalOf(surface_size)
          /\ buffer = resize_buffer(InitFrame, LogicalOf(surface_size).width,
                                    LogicalOf(surface_size).height)
    /\ cursor_position = <<0, 0>>
    /\ scene = <<>>
    /\ pc = "idle"
    /\ screen_size = Size(0, 0)
    /\ ry = 0
    /\ rx = 0
    /\ rays = <<>>
    /\ ri = 0
    /\ wlog = <<>>
    /\ resized = FALSE
    /\ TraceIdle

\* WindowingState::resize
resize(new_size) ==
    /\ size' = LogicalOf(new_size)
    /\ buffer' = resize_buffer(buffer, LogicalOf(new_size).width, LogicalOf(new_size).height)
    /\ resized' = TRUE

\* WindowEvent::Resized
Resized ==
    /\ pc = "idle"
    /\ \E new_size \in Sizes : resize(new_size)
    /\ UNCHANGED <<cursor_position, scene, pc, renderVars, traceVars>>

\* WindowEvent::ScaleFactorChanged
ScaleFactorChanged ==
    /\ pc = "idle"
    /\ \E new_inner_size \in Sizes : resize(new_inner_size)
    /\ UNCHANGED <<cursor_position, scene, pc, renderVars, traceVars>>

\* WindowEvent::CursorMoved: position.to_logical(dpi) divides by the dpi
CursorMoved ==
    /\ pc = "idle"
    /\ \E position \in CursorPool :
          cursor_position' = <<position[1] \div Dpi, position[2] \div Dpi>>
    /\ UNCHANGED <<size, buffer, scene, pc, renderVars, resized, traceVars>>

\* WindowEvent::CloseRequested
CloseRequested ==
    /\ pc = "idle"
    /\ pc' = "exit"
    /\ UNCHANGED <<size, buffer, cursor_position, scene, renderVars, resized, traceVars>>

\* Event::RedrawRequested up to the entry of render: the scene is rebuilt and
\* render is called with the frame and the stored size
RedrawRequested ==
    /\ pc = "idle"
    /\ scene' = simple_scene(cursor_position, size)
    /\ screen_size' = size
    /\ ry' = 0
    /\ rx' = 0
    /\ rays' = <<>>
    /\ ri' = 0
    /\ wlog' = <<>>
    /\ pc' = "rays"
    /\ UNCHANGED <<size, buffer, cursor_position, resized, traceVars>>

\* render, first loop: the body of `for x`, pushing the ray of pixel (x, y)
RenderPushRay ==
    /\ pc = "rays"
    /\ ry < screen_size.height
    /\ rx < screen_size.width
    /\ rays' = Append(rays, [x |-> rx, y |-> ry])
    /\ rx' = rx + 1
    /\ UNCHANGED <<size, buffer, cursor_position, scene, pc, screen_size, ry, ri, wlog,
                   resized, traceVars>>

\* render, first loop: `for x` is exhausted, `for y` advances
RenderNextRow ==
    /\ pc = "rays"
    /\ ry < screen_size.height
    /\ rx >= screen_size.width
    /\ ry' = ry + 1
    /\ rx' = 0
    /\ UNCHANGED <<size, buffer, cursor_position, scene, pc, screen_size, rays, ri, wlog,
                   resized, traceVars>>

\* render: `for y` is exhausted, the second loop starts
RenderRaysDone ==
    /\ pc = "rays"
    /\ ry >= screen_size.height
    /\ ri' = 0
    /\ pc' = "trace"
    /\ UNCHANGED <<size, buffer, cursor_position, scene, screen_size, ry, rx, rays, wlog,
                   resized, traceVars>>

\* render, second loop: the body for the ri-th ray.  The four indexed stores run
\* in order; the first index past the frame panics.
RenderWritePixel ==
    /\ pc = "trace"
    /\ ri < Len(rays)
    /\ \E color \in ColorSamples :
          LET i == PixelOffset(ri)
              fit == BytesInRange(buffer, i)
              tried == IF fit < 4 THEN fit + 1 ELSE 4
          IN  /\ buffer' = [k \in 1..Len(buffer) |->
                               IF k - 1 >= i /\ k - 1 < i + fit
                               THEN AsU8(color[k - i]) ELSE buffer[k]]
              /\ wlog' = wlog \o [c \in 1..tried |->
                                    [index |-> i + c - 1, channel |-> c,
                                     x |-> rays[ri + 1].x, y |-> rays[ri + 1].y]]
              /\ pc' = IF fit < 4 THEN "panic" ELSE "trace"
    /\ ri' = ri + 1
    /\ UNCHANGED <<size, cursor_position, scene, screen_size, ry, rx, rays, resized,
                   traceVars>>

\* render returns; WindowingState::render presents the frame
RenderDone ==
    /\ pc = "trace"
    /\ ri >= Len(rays)
    /\ pc' = "idle"
    /\ resized' = FALSE
    /\ UNCHANGED <<size, buffer, cursor_position, scene, renderVars, traceVars>>

Next ==
    \/ Resized
    \/ ScaleFactorChanged
    \/ CursorMoved
    \/ CloseRequested
    \/ RedrawRequested
    \/ RenderPushRay
    \/ RenderNextRow
    \/ RenderRaysDone
    \/ RenderWritePixel
    \/ RenderDone

Spec == Init /\ [][Next]_vars

\* ------------------------------------------------------------------------
\* Properties of Spec
\* ------------------------------------------------------------------------

\* render has run both loops to their end
RenderFinished == pc = "trace" /\ ri >= Len(rays)

\* the indices written so far in this render call
WrittenIndices == {wlog[k].index : k \in DOMAIN wlog}

\* C1: one call of render writes the bytes R,G,B,A of pixel (x,y) at indices
\* 4*(y*W+x) .. 4*(y*W+x)+3, pixels in row-major order (y outer, x inner); no index
\* is written twice, none is >= W*H*4, no store is out of range, and when render
\* ends every index of 0..W*H*4-1 has been written exactly once.
C1_RenderWritesEachByteOnce ==
    LET W == screen_size.width
        H == screen_size.height
    IN  /\ pc # "panic"
        /\ \A k \in DOMAIN wlog :
              LET p == (k - 1) \div 4
                  c == ((k - 1) % 4) + 1
              IN  /\ wlog[k].channel = c
                  /\ wlog[k].x = p % W
                  /\ wlog[k].y = p \div W
                  /\ wlog[k].index = 4 * (wlog[k].y * W + wlog[k].x) + (c - 1)
                  /\ wlog[k].index < W * H * 4
        /\ \A j, k \in DOMAIN wlog : j # k => wlog[j].index # wlog[k].index
        /\ RenderFinished =>
              /\ WrittenIndices = 0..(W * H * 4 - 1)
              /\ Len(wlog) = W * H * 4

\* a finished render of a frame with two rows and two columns at least
C1_Witness ==
    /\ RenderFinished
    /\ screen_size.width >= 2
    /\ screen_size.height >= 2
    /\ Len(wlog) = screen_size.width * screen_size.height * 4

\* C2: no two entries of scene.objects carry the same object id, in every Scene
\* simple_scene builds.
C2_ObjectIdsUnique ==
    scene # <<>> =>
        \A i, j \in DOMAIN scene.objects :
            i # j => scene.objects[i].id # scene.objects[j].id

\* C10: whenever render runs for a RedrawRequested, the resolution it is given is
\* the stored size and the frame it is given has size.width * size.height * 4
\* bytes, so no store of render is out of range.
C10_FrameMatchesSize ==
    /\ pc # "panic"
    /\ pc \in {"rays", "trace"} =>
          /\ screen_size = size
          /\ Len(buffer) = size.width * size.height * 4

\* a frame rendered to its end after a resize and a cursor move
C10_Witness ==
    /\ RenderFinished
    /\ resized
    /\ cursor_position # <<0, 0>>
    /\ Len(wlog) > 0

\* ------------------------------------------------------------------------
\* Inputs of intersect_ray and trace_ray: a world on the x axis
\* ------------------------------------------------------------------------

Sphere(x, y, z, r) == [position |-> V3(x, y, z), radius |-> r]

white == Material(Unit, Unit, Unit, Unit)

blue == Material(0, Unit \div 2, Unit, Unit)

\* spheres centred on the x axis, spheres touching it, and one away from it
SpherePool ==
    << [shape |-> Sphere(3, 0, 0, 1), material |-> white],
       [shape |-> Sphere(4, 0, 0, 2), material |-> blue],
       [shape |-> Sphere(2, 0, 0, 2), material |-> white],
       [shape |-> Sphere(0, 1, 0, 1), material |-> blue],
       [shape |-> Sphere(-3, 0, 0, 1), material |-> white],
       [shape |-> Sphere(2, 1, 0, 1), material |-> blue],
       [shape |-> Sphere(0, 5, 0, 1), material |-> white] >>

LightPool ==
    << [kind |-> "SpotLight", position |-> V3(-2, 0, 0), intensity |-> 1],
       [kind |-> "SpotLight", position |-> V3(2, 0, 0), intensity |-> 2],
       [kind |-> "DirectionalLight", direction |-> V3(1, 0, 0), intensity |-> 1],
       [kind |-> "DirectionalLight", direction |-> V3(-2, 0, 0), intensity |-> 1] >>

\* the ids of a scene's objects, by position in the list: all different, or the
\* first two equal as in simple_scene
IdOf(pattern, k) ==
    IF pattern = "unique" THEN k - 1 ELSE IF k <= 2 THEN 0 ELSE k - 2

IdPatterns == {"unique", "first_two_equal"}

ObjectsOf(sel, pattern) ==
    [k \in 1..Len(sel) |->
        Object(IdOf(pattern, k), SpherePool[sel[k]].shape, SpherePool[sel[k]].material)]

\* the spheres SpecIntersect draws from: two met at the same t, one whose surface
\* the ray starts on, one the ray touches where it starts, one it misses
ProbeSpheres == {1, 2, 3, 4, 7}

\* the spheres SpecTrace draws from: two facing each other, one the ray starts on,
\* two it touches
TraceSpheres == {1, 3, 4, 5, 6}

\* the lists of 1..n different indices of `pool`, in any order
Selections(pool, n) ==
    UNION {{sel \in [1..m -> pool] :
               \A i, j \in 1..m : i # j => sel[i] # sel[j]} : m \in 1..n}

\* the lists of 1..n different pool indices in increasing order
Increasing(sel) == \A i, j \in DOMAIN sel : i < j => sel[i] < sel[j]

\* the lists of 0..n different light indices in increasing order
LightSelections(n) ==
    UNION {{sel \in [1..m -> DOMAIN LightPool] : Increasing(sel)} : m \in 0..n}

LightsOf(sel) == [k \in 1..Len(sel) |-> LightPool[sel[k]]]

\* unit rays along the x axis, from outside, from a surface and from inside spheres
UnitRays ==
    { Ray(V3(0, 0, 0), V3(1, 0, 0)),
      Ray(V3(0, 0, 0), V3(-1, 0, 0)),
      Ray(V3(3, 0, 0), V3(-1, 0, 0)) }

\* and a light ray of a DirectionalLight of direction (2, 0, 0): direction * -1.0
ProbeRays == UnitRays \cup { Ray(V3(0, 0, 0), VScale(Fl(-1), V3(2, 0, 0))) }

MinTies == {"first", "second"}

\* the main loop's part of the state, not running
MainOff ==
    /\ size = Size(0, 0)
    /\ buffer = <<>>
    /\ cursor_position = <<0, 0>>
    /\ scene = <<>>
    /\ pc = "off"
    /\ screen_size = Size(0, 0)
    /\ ry = 0
    /\ rx = 0
    /\ rays = <<>>
    /\ ri = 0
    /\ wlog = <<>>
    /\ resized = FALSE

\* ------------------------------------------------------------------------
\* SpecIntersect: intersect_ray applied to drawn scenes, rays and excluded ids
\* ------------------------------------------------------------------------

InitIntersect ==
    /\ MainOff
    /\ \E sel \in Selections(ProbeSpheres, MaxProbeObjects), pattern \in IdPatterns :
          world = [objects |-> ObjectsOf(sel, pattern), lights |-> <<>>]
    /\ min_tie \in MinTies
    /\ arg = NoneV
    /\ stack = <<>>
    /\ result = NoneV
    /\ lastQuery = NoneV
    /\ lastLight = NoneV
    /\ calls = 0

Query(ray, exclude_id) ==
    [some |-> TRUE, ray |-> ray, exclude_id |-> exclude_id,
     found |-> intersect_ray(world, ray, exclude_id, min_tie)]

\* one call of intersect_ray
IntersectProbe ==
    /\ lastQuery = NoneV
    /\ \E ray \in ProbeRays,
          exclude_id \in {NoneV} \cup {SomeId(k) : k \in 0..(MaxProbeObjects - 1)} :
          lastQuery' = Query(ray, exclude_id)
    /\ UNCHANGED <<mainVars, world, min_tie, arg, stack, result, lastLight, calls>>

NextIntersect == IntersectProbe

SpecIntersect == InitIntersect /\ [][NextIntersect]_vars

\* ------------------------------------------------------------------------
\* SpecTrace: trace_ray as a call stack
\* ------------------------------------------------------------------------

\* the bounce depth render passes to trace_ray
RenderBounces == 3

\* a reflection traced with the same depth as its caller
BounceDepth_same(max_bounce) == max_bounce

\* the depth of the recursive call
BounceDepth(max_bounce) == max_bounce - 1

\* a miss returning an ambient colour
MissColor_ambient == <<Unit \div 4, Unit \div 4, Unit \div 4, Unit>>

\* what trace_ray returns when the ray hits nothing
MissColor == ZERO

\* no clamp of the returned colour
ClampFinal_none(v) == v

\* the colour trace_ray returns on a hit
ClampFinal(v) == ClampOne(v)

\* direction - 2.0 * direction.dot(normal) * normal
Reflect(direction, normal) ==
    VSub(direction, VScale(FMul(Fl(2), Dot(direction, normal)), normal))

\* a frame at the entry of trace_ray
NewFrame(ray, max_bounce) ==
    [ray |-> ray, max_bounce |-> max_bounce, stage |-> "enter",
     exclude_id |-> NoneV, hit |-> NoneV, point |-> V3(0, 0, 0), normal |-> V3(0, 0, 0),
     intensity |-> ZERO, li |-> 1, bounced |-> FALSE, value |-> ZERO]

\* the frame after `if let Some(..) = intersect_ray(scene, &ray, None)`: point and
\* normal on a hit, the return of the miss colour otherwise
AtPoint(frame, found, point) ==
    [frame EXCEPT !.stage = "lights", !.hit = found, !.point = point,
                  !.normal = get_normal(world.objects[found.idx].shape, point)]

AfterIntersect(frame, exclude_id, found) ==
    IF found.some
    THEN AtPoint([frame EXCEPT !.exclude_id = exclude_id], found,
                 get_point(frame.ray, found.t))
    ELSE [frame EXCEPT !.exclude_id = exclude_id, !.stage = "return", !.value = MissColor]

\* has_light, given the result of the search along the light ray
has_light(light, point, ray, occluder) ==
    IF occluder.some
    THEN check_shadow(light, point, get_point(ray, occluder.t)) = FALSE
    ELSE TRUE

\* the closure's value once the light ray is known to exist and has_light is decided
LitOrNot(light, frame, ray, occluder, lit) ==
    [some |-> TRUE, light |-> light, point |-> frame.point, normal |-> frame.normal,
     hit |-> frame.hit, got_ray |-> TRUE, ray |-> ray, occluder |-> occluder,
     contributes |-> lit,
     added |-> IF lit
               THEN C4Scale(intensity(light, frame.point, frame.normal),
                            world.objects[frame.hit.idx].material.color)
               ELSE ZERO]

WithOccluder(light, frame, ray, occluder) ==
    LitOrNot(light, frame, ray, occluder, has_light(light, frame.point, ray, occluder))

\* the filter_map closure of trace_ray on one light, given get_light_ray's result
LightClosure(light, frame, light_ray) ==
    IF light_ray.some
    THEN WithOccluder(light, frame, light_ray.ray,
                      intersect_ray(world, light_ray.ray, SomeId(frame.hit.id), min_tie))
    ELSE [some |-> TRUE, light |-> light, point |-> frame.point, normal |-> frame.normal,
          hit |-> frame.hit, got_ray |-> FALSE, ray |-> NoneV, occluder |-> NoneV,
          contributes |-> FALSE, added |-> ZERO]

Top == stack[Len(stack)]

SetTop(frame) == [stack EXCEPT ![Len(stack)] = frame]

InitTrace ==
    /\ MainOff
    /\ \E sel \in {x \in Selections(TraceSpheres, MaxObjects) : Increasing(x)}, pattern \in IdPatterns,
          lsel \in LightSelections(MaxLights) :
          world = [objects |-> ObjectsOf(sel, pattern), lights |-> LightsOf(lsel)]
    /\ min_tie \in MinTies
    /\ \E ray \in UnitRays, max_bounce \in 0..RenderBounces :
          arg = [some |-> TRUE, ray |-> ray, max_bounce |-> max_bounce]
    /\ stack = <<>>
    /\ result = NoneV
    /\ lastQuery = NoneV
    /\ lastLight = NoneV
    /\ calls = 0

\* the guards of the steps of trace_ray
NotCalled == stack = <<>> /\ ~result.some

AtEntry == stack # <<>> /\ Top.stage = "enter"

AtLight == stack # <<>> /\ Top.stage = "lights" /\ Top.li <= Len(world.lights)

AtBounceTest == stack # <<>> /\ Top.stage = "lights" /\ Top.li > Len(world.lights)

AtClamp == stack # <<>> /\ Top.stage = "clamp"

AtReturn == stack # <<>> /\ Top.stage = "return"

\* the outermost call of trace_ray
TraceStart ==
    /\ NotCalled
    /\ stack' = <<NewFrame(arg.ray, arg.max_bounce)>>
    /\ calls' = calls + 1
    /\ UNCHANGED <<mainVars, world, min_tie, arg, result, lastQuery, lastLight>>

\* the state after the search of the top frame's ray has returned `found`
Intersected(found) ==
    /\ lastQuery' = [some |-> TRUE, ray |-> Top.ray, exclude_id |-> NoneV, found |-> found]
    /\ stack' = SetTop(AfterIntersect(Top, NoneV, found))

\* intersect_ray(scene, &ray, None), then point and normal, or the miss
TraceIntersect ==
    /\ AtEntry
    /\ Intersected(intersect_ray(world, Top.ray, NoneV, min_tie))
    /\ UNCHANGED <<mainVars, world, min_tie, arg, result, lastLight, calls>>

\* the state after the closure has run on the light Top.li with value `closure`
LightDone(closure) ==
    /\ lastLight' = closure
    /\ lastQuery' = IF closure.got_ray
                    THEN [some |-> TRUE, ray |-> closure.ray,
                          exclude_id |-> SomeId(Top.hit.id), found |-> closure.occluder]
                    ELSE lastQuery
    /\ stack' = SetTop([Top EXCEPT !.intensity = C4Add(@, closure.added), !.li = @ + 1])

\* one light of scene.lights.iter().filter_map(..).sum()
TraceLight ==
    /\ AtLight
    /\ LightDone(LightClosure(world.lights[Top.li], Top,
                              get_light_ray(world.lights[Top.li], Top.point, Top.normal)))
    /\ UNCHANGED <<mainVars, world, min_tie, arg, result, calls>>

\* max_bounce != 0: the recursive call on the reflected ray
TraceBounce ==
    /\ AtBounceTest
    /\ Top.max_bounce # 0
    /\ stack' = Append(SetTop([Top EXCEPT !.stage = "await"]),
                       NewFrame(Ray(Top.point, Reflect(Top.ray.direction, Top.normal)),
                                BounceDepth(Top.max_bounce)))
    /\ calls' = calls + 1
    /\ UNCHANGED <<mainVars, world, min_tie, arg, result, lastQuery, lastLight>>

\* max_bounce == 0: no recursion
TraceNoBounce ==
    /\ AtBounceTest
    /\ Top.max_bounce = 0
    /\ stack' = SetTop([Top EXCEPT !.stage = "clamp"])
    /\ UNCHANGED <<mainVars, world, min_tie, arg, result, lastQuery, lastLight, calls>>

\* intensity.min(vec4(1.0, 1.0, 1.0, 1.0)) is the value of the call
TraceClamp ==
    /\ AtClamp
    /\ stack' = SetTop([Top EXCEPT !.stage = "return", !.value = ClampFinal(Top.intensity)])
    /\ UNCHANGED <<mainVars, world, min_tie, arg, result, lastQuery, lastLight, calls>>

\* a recursive call returns: intensity += trace_ray(..) * 0.5
TraceReturnToCaller ==
    /\ AtReturn
    /\ Len(stack) > 1
    /\ stack' = [k \in 1..(Len(stack) - 1) |->
                    IF k = Len(stack) - 1
                    THEN [stack[k] EXCEPT !.intensity = C4Add(@, C4Half(Top.value)),
                                          !.bounced = TRUE, !.stage = "clamp"]
                    ELSE stack[k]]
    /\ UNCHANGED <<mainVars, world, min_tie, arg, result, lastQuery, lastLight, calls>>

\* the outermost call returns
TraceReturn ==
    /\ AtReturn
    /\ Len(stack) = 1
    /\ result' = [some |-> TRUE, value |-> Top.value]
    /\ stack' = <<>>
    /\ UNCHANGED <<mainVars, world, min_tie, arg, lastQuery, lastLight, calls>>

NextTrace ==
    \/ TraceStart
    \/ TraceIntersect
    \/ TraceLight
    \/ TraceBounce
    \/ TraceNoBounce
    \/ TraceClamp
    \/ TraceReturnToCaller
    \/ TraceReturn

SpecTrace == InitTrace /\ [][NextTrace]_vars

\* ------------------------------------------------------------------------
\* Properties of SpecIntersect
\* ------------------------------------------------------------------------

\* what shape.intersect returns for object i on the ray of the latest call
ShapeT(i) == SphereIntersect(world.objects[i].shape, lastQuery.ray, min_tie)

\* the objects the latest call may return: id not excluded, intersect result t >= 0
Eligible ==
    {i \in DOMAIN world.objects :
        /\ ~(lastQuery.exclude_id.some /\ lastQuery.exclude_id.id = world.objects[i].id)
        /\ ShapeT(i).some
        /\ ShapeT(i).t.n >= 0}

\* what any reading of the claim asks of a returned object
ReturnsAnEligibleObject ==
    /\ lastQuery.found.some <=> Eligible # {}
    /\ lastQuery.found.some =>
          /\ lastQuery.found.idx \in Eligible
          /\ lastQuery.found.t = ShapeT(lastQuery.found.idx).t
          /\ lastQuery.found.id = world.objects[lastQuery.found.idx].id
          /\ lastQuery.exclude_id.some => lastQuery.found.id # lastQuery.exclude_id.id

\* C3 as stated: intersect_ray returns none iff no object with an id other than the
\* excluded one has an intersect result t >= 0; otherwise it returns the object
\* with the minimum such t, the first in the list among those whose t equals that
\* minimum; an object with the excluded id is never returned.
C3_FirstOfEqualMinimum ==
    lastQuery.some =>
        /\ ReturnsAnEligibleObject
        /\ lastQuery.found.some =>
              \A j \in Eligible :
                  /\ lastQuery.found.t.n <= ShapeT(j).t.n
                  /\ ShapeT(j).t.n = lastQuery.found.t.n => lastQuery.found.idx <= j

\* C3 amended: as C3, with the minimum and the ties taken in the order of
\* f32::total_cmp, in which -0.0 comes before +0.0: the object returned has the
\* least t in that order, and is the first in the list among those whose t is the
\* same float, sign of zero included.
C3_FirstOfTotalOrderMinimum ==
    lastQuery.some =>
        /\ ReturnsAnEligibleObject
        /\ lastQuery.found.some =>
              \A j \in Eligible :
                  /\ ~TotalLess(ShapeT(j).t, lastQuery.found.t)
                  /\ ShapeT(j).t = lastQuery.found.t => lastQuery.found.idx <= j

\* a call with an excluded id that some nearer object carries, returning the first
\* of two objects hit at the same t
C3_Witness ==
    /\ lastQuery.some
    /\ lastQuery.exclude_id.some
    /\ lastQuery.found.some
    /\ \E j \in Eligible : j > lastQuery.found.idx /\ ShapeT(j).t = lastQuery.found.t
    /\ \E i \in DOMAIN world.objects :
          /\ world.objects[i].id = lastQuery.exclude_id.id
          /\ ShapeT(i).some
          /\ ShapeT(i).t.n >= 0
          /\ ShapeT(i).t.n < lastQuery.found.t.n

\* C8: the intersection search reports a sphere as hit whenever its quadratic
\* a*t^2 + b*t + c = 0 has a root t >= 0, and the distance it reports is the
\* smallest such root, (-b - sqrt(d)) / (2a) if that is >= 0 and
\* (-b + sqrt(d)) / (2a) otherwise.
C8_SmallestNonNegativeRoot ==
    lastQuery.some =>
        \A i \in DOMAIN world.objects :
            LET o == world.objects[i]
                a == QuadA(lastQuery.ray).n
                b == QuadB(o.shape, lastQuery.ray).n
                d == PartialT(QuadA(lastQuery.ray), QuadB(o.shape, lastQuery.ray),
                              QuadC(o.shape, lastQuery.ray)).n
                reported == Candidate(o, i, ShapeT(i), lastQuery.exclude_id)
            IN  (/\ ~(lastQuery.exclude_id.some /\ lastQuery.exclude_id.id = o.id)
                 /\ d >= 0
                 /\ ISqrt(d) - b >= 0)
                => /\ reported.some
                   /\ 2 * a * reported.t.n =
                         (IF 0 - b - ISqrt(d) >= 0 THEN 0 - b - ISqrt(d) ELSE ISqrt(d) - b)

\* ------------------------------------------------------------------------
\* Properties of SpecTrace
\* ------------------------------------------------------------------------

\* the objects, other than those with the id of the hit object, that
\* shape.intersect meets at some t >= 0 along the ray
OccludersOn(ray, hit_id) ==
    {i \in DOMAIN world.objects :
        /\ world.objects[i].id # hit_id
        /\ SphereIntersect(world.objects[i].shape, ray, min_tie).some
        /\ SphereIntersect(world.objects[i].shape, ray, min_tie).t.n >= 0}

\* the least t among them
NearestT(ray, occluders) ==
    CHOOSE t \in {SphereIntersect(world.objects[i].shape, ray, min_tie).t.n : i \in occluders} :
        \A i \in occluders : t <= SphereIntersect(world.objects[i].shape, ray, min_tie).t.n

\* whether the light reaches the point of a hit, as the claim puts it
Lit(light, point, normal, hit_id) ==
    LET lr == get_light_ray(light, point, normal)
        occ == OccludersOn(lr.ray, hit_id)
    IN  /\ lr.some
        /\ \/ occ = {}
           \/ /\ light.kind = "SpotLight"
              /\ ~(Length(VSub(light.position, point))
                      > Length(VSub(get_point(lr.ray, Fl(NearestT(lr.ray, occ))), point)))

\* what the light adds to the direct-lighting sum, as the claim puts it
Contribution(light, point, normal, hit) ==
    IF Lit(light, point, normal, hit.id)
    THEN C4Scale(intensity(light, point, normal), world.objects[hit.idx].material.color)
    ELSE ZERO

RECURSIVE DirectSum(_, _)
DirectSum(frame, n) ==
    IF n = 0 THEN ZERO
    ELSE C4Add(DirectSum(frame, n - 1),
               Contribution(world.lights[n], frame.point, frame.normal, frame.hit))

\* C4: for a hit on an object with id X, a light adds intensity(point, normal) *
\* material.color to the direct-lighting sum iff get_light_ray returns a ray and
\* the search along it with id X excluded finds nothing or check_shadow of the
\* nearest object found is false, and nothing otherwise; so a DirectionalLight adds
\* nothing whenever an object with another id is hit along its light ray, and a
\* SpotLight with a light ray adds nothing iff the nearest such object is strictly
\* closer to the point than the light.
C4_LightContribution ==
    /\ lastLight.some =>
          LET L == lastLight
              occ == OccludersOn(L.ray, L.hit.id)
          IN  /\ L.contributes <=> Lit(L.light, L.point, L.normal, L.hit.id)
              /\ L.added = Contribution(L.light, L.point, L.normal, L.hit)
              /\ L.got_ray = get_light_ray(L.light, L.point, L.normal).some
              /\ (L.got_ray /\ L.light.kind = "DirectionalLight" /\ occ # {})
                    => (~L.contributes /\ L.added = ZERO)
              /\ (L.got_ray /\ L.light.kind = "SpotLight")
                    => (~L.contributes <=>
                          (occ # {} /\ NearestT(L.ray, occ)
                                          < Length(VSub(L.light.position, L.point))))
    /\ \A k \in DOMAIN stack :
          (stack[k].stage = "lights" \/ (stack[k].stage = "await"))
             => stack[k].intensity = DirectSum(stack[k], stack[k].li - 1)

\* a SpotLight whose light ray meets an object exactly as far as the light, which
\* does not shadow it, and the light adds a colour
C4_Witness ==
    /\ lastLight.some
    /\ lastLight.light.kind = "SpotLight"
    /\ lastLight.got_ray
    /\ lastLight.occluder.some
    /\ lastLight.occluder.t.n = Length(VSub(lastLight.light.position, lastLight.point))
    /\ lastLight.contributes
    /\ lastLight.added # ZERO

\* C5: with an empty light list trace_ray returns (0,0,0,0) for every ray and every
\* bounce depth, at every level of the recursion.
C5_NoLightsNoColor ==
    world.lights = <<>> =>
        /\ result.some => result.value = ZERO
        /\ \A k \in DOMAIN stack : stack[k].intensity = ZERO /\ stack[k].value = ZERO

\* a call of depth >= 1 that has returned after its reflections hit objects
C5_Witness ==
    /\ world.lights = <<>>
    /\ result.some
    /\ arg.max_bounce >= 1
    /\ calls >= 3

\* C6: a call of trace_ray with max_bounce = n makes at most n nested recursive
\* calls, each with max_bounce one less than its caller's, none when n = 0 and none
\* from a call whose ray hit nothing; every call in progress can take its next step
\* until the outermost call has returned; with render's depth 3 at most 4 rays are
\* traced for a pixel.
C6_BoundedRecursion ==
    /\ calls <= arg.max_bounce + 1
    /\ Len(stack) <= calls
    /\ arg.max_bounce = 0 => calls <= 1
    /\ arg.max_bounce = RenderBounces => calls <= 4
    /\ \A k \in DOMAIN stack :
          /\ stack[k].max_bounce = arg.max_bounce - (k - 1)
          /\ stack[k].max_bounce >= 0
          /\ stack[k].li <= Len(world.lights) + 1
          /\ k < Len(stack) =>
                /\ stack[k].stage = "await"
                /\ stack[k].hit.some
                /\ stack[k].max_bounce # 0
    /\ result.some \/ NotCalled \/ AtEntry \/ AtLight \/ AtBounceTest \/ AtClamp \/ AtReturn
    /\ result.some => stack = <<>>

\* a call with render's depth that traced the primary ray and 3 reflections
C6_Witness ==
    /\ arg.max_bounce = RenderBounces
    /\ calls = 4
    /\ result.some

\* C7: every channel of the colour a call of trace_ray returns is at most 1.0, also
\* when half the reflected colour was added to the direct sum, so every channel
\* times 255 that render converts to a byte is at most 255.
C7_ChannelsAtMostOne ==
    /\ \A k \in DOMAIN stack :
          stack[k].stage = "return" => \A c \in 1..4 : stack[k].value[c] <= Unit
    /\ result.some => \A c \in 1..4 : result.value[c] * 255 <= 255 * Unit

\* a call returning a channel clamped to 1.0 that the reflected half had taken above
C7_Witness ==
    \E k \in DOMAIN stack :
        /\ stack[k].stage = "return"
        /\ stack[k].bounced
        /\ \E c \in 1..4 : stack[k].intensity[c] > Unit /\ stack[k].value[c] = Unit

\* C9: when trace_ray recurses with the ray reflected from a hit on object X, the
\* search for the reflected ray excludes the id of X, and the reflected ray does
\* not report a hit on the object it was emitted from.
C9_ReflectionExcludesEmitter ==
    \A k \in DOMAIN stack :
        (k > 1 /\ stack[k].stage # "enter") =>
            /\ stack[k].exclude_id = SomeId(stack[k - 1].hit.id)
            /\ stack[k].hit.some => stack[k].hit.idx # stack[k - 1].hit.idx

\* the second half of C9 alone: no reflected ray hits the object it left
ReflectionNeverHitsEmitter ==
    \A k \in DOMAIN stack :
        (k > 1 /\ stack[k].hit.some) => stack[k].hit.idx # stack[k - 1].hit.idx

\* ------------------------------------------------------------------------
\* The number model is exact on the inputs drawn
\* ------------------------------------------------------------------------

AxisParallel(v) == Cardinality({k \in 1..3 : v[k].n # 0}) = 1

\* on `ray`, every sphere of the world has a negative discriminant or one that is
\* the square of an even integer, so sqrt and the division by 2.0 are exact
ExactOn(ray) ==
    /\ AxisParallel(ray.direction)
    /\ \A i \in DOMAIN world.objects :
          LET d == PartialT(QuadA(ray), QuadB(world.objects[i].shape, ray),
                            QuadC(world.objects[i].shape, ray)).n
          IN  d < 0 \/ (ISqrt(d) * ISqrt(d) = d /\ ISqrt(d) % 2 = 0)

\* every ray searched is one the number model is exact on, and every ray traced
\* and every normal is a unit vector along an axis
NumbersExact ==
    /\ lastQuery.some => ExactOn(lastQuery.ray)
    /\ \A k \in DOMAIN stack :
          /\ ExactOn(stack[k].ray)
          /\ QuadA(stack[k].ray).n = 1
          /\ stack[k].hit.some => (AxisParallel(stack[k].normal)
                                     /\ Dot(stack[k].normal, stack[k].normal).n = 1)
    /\ lastLight.some =>
          /\ lastLight.light.kind = "SpotLight" =>
                (IsZeroVec(VSub(lastLight.light.position, lastLight.point))
                    \/ AxisParallel(VSub(lastLight.light.position, lastLight.point)))
          /\ lastLight.got_ray => ExactOn(lastLight.ray)

====
